---- MODULE Spec2Model ----
(***************************************************************************)
(* Model of src/hybrid.py: the time-marching loop simulate_hybrid_rocket   *)
(* and the four ballistics functions it calls.                             *)
(*                                                                         *)
(* Numbers.  The program computes in binary floating point, and several    *)
(* of its properties depend on the rounding of each operation (time is     *)
(* accumulated with +=, pressure is a quotient).  A float is modelled as a *)
(* natural number of units of 2^-FracBits that has at most MantBits        *)
(* significant bits: a binary floating-point format with round-to-nearest, *)
(* ties-to-even, of reduced precision.  Every arithmetic operation of the  *)
(* source is one rounded operation of the model, in the source's order.    *)
(* Only non-negative values are modelled.                                  *)
(***************************************************************************)
EXTENDS Integers, Sequences, FiniteSets, TLC

\* Precision of the modelled float format (significant bits).
MantBits == 4
\* The unit of the format is 2^-FracBits.
FracBits == 4
\* Cap on the number of loop iterations explored (the loop of an invalid
\* configuration such as DELTA_T = 0 never ends).
MaxSteps == 8

\* 1.0 in units.
Q == 2 ^ FracBits

\* A local name the function has not assigned yet.
Unbound == -1

VARIABLES
    cfg,                    \* the module constants, lines 5-16
    time, port_radius, total_fuel_consumed,
    time_data, port_radius_data, chamber_pressure_data, thrust_data,
    oxidizer_flux, regression_rate, fuel_flow_rate, total_mass_flow_rate,
    chamber_pressure, thrust,
    pc,                     \* "loop" (at the while test) or "done"
    outcome,                \* how the call ended
    results,                \* the tuple returned, <<>> before the return
    steps,                  \* history: loop iterations completed
    fuel_flow_data          \* history: fuel_flow_rate of each completed iteration

vars == <<cfg, time, port_radius, total_fuel_consumed, time_data, port_radius_data,
          chamber_pressure_data, thrust_data, oxidizer_flux, regression_rate,
          fuel_flow_rate, total_mass_flow_rate, chamber_pressure, thrust, pc,
          outcome, results, steps, fuel_flow_data>>

----------------------------------------------------------------------------
\* Floating-point arithmetic

RECURSIVE BitLen(_)
BitLen(n) == IF n = 0 THEN 0 ELSE 1 + BitLen(n \div 2)

\* Distance between neighbouring floats at magnitude f (f in units).
Spacing(f) == IF f < 2 ^ MantBits THEN 1 ELSE 2 ^ (BitLen(f) - MantBits)

\* The float nearest to the rational n/d units, ties to even.
RoundRat(n, d) ==
    LET s   == Spacing(n \div d)
        ds  == d * s
        m   == n \div ds
        rem == n - m * ds
        up  == 2 * rem > ds \/ (2 * rem = ds /\ m % 2 = 1)
    IN  (IF up THEN m + 1 ELSE m) * s

Representable(x) == RoundRat(x, 1) = x

FAdd(a, b) == RoundRat(a + b, 1)
FMul(a, b) == RoundRat(a * b, Q)
FDiv(a, b) == RoundRat(a * Q, b)

\* y^5 <= n, without forming y^5.
Le5(y, n) == y = 0 \/ y <= (((n \div y) \div y) \div y) \div y

\* x ** 0.8.  The C library's pow is accurate to within one unit in the last
\* place but not correctly rounded, so the result is either neighbour of the
\* exact power (the exact power when it is a float).
FPow45(x) ==
    LET n  == (x ^ 4) * Q
        hi == IF x > Q THEN x ELSE Q
        lo == CHOOSE y \in 0..hi :
                /\ Representable(y) /\ Le5(y, n)
                /\ \A z \in (y + 1)..hi : Representable(z) => ~Le5(z, n)
    IN  IF lo * lo * lo * lo * lo = n THEN {lo} ELSE {lo, lo + Spacing(lo)}

\* A float literal k/16 of the source text.
Lit(k) == RoundRat(k * Q, 16)

\* np.pi
PI == RoundRat(355 * Q, 113)

----------------------------------------------------------------------------
\* Configurations

Nominal ==
    [REGRESSION_RATE_COEFFICIENT |-> Lit(16), FUEL_DENSITY |-> Lit(16),
     GRAIN_LENGTH |-> Lit(16), INITIAL_PORT_RADIUS |-> Lit(16),
     MAX_PORT_RADIUS |-> Lit(32), OXIDIZER_MASS_FLOW_RATE |-> Lit(16),
     CHARACTERISTIC_VELOCITY |-> Lit(16), THROAT_AREA |-> Lit(12),
     DELTA_T |-> Lit(5), SIMULATION_DURATION |-> Lit(30),
     SINGULARITY_THRESHOLD |-> Lit(14)]

ValidConfigs ==
    { [Nominal EXCEPT !.INITIAL_PORT_RADIUS = Lit(r0), !.MAX_PORT_RADIUS = Lit(mr),
                      !.OXIDIZER_MASS_FLOW_RATE = Lit(mo), !.THROAT_AREA = Lit(at),
                      !.CHARACTERISTIC_VELOCITY = Lit(cs), !.SIMULATION_DURATION = Lit(du)] :
        r0 \in {12, 16}, mr \in {20, 32}, mo \in {16, 32}, at \in {10, 12},
        cs \in {16, 24}, du \in {10, 30} }

FaultyConfigs ==
    { [Nominal EXCEPT !.THROAT_AREA = 0], [Nominal EXCEPT !.DELTA_T = 0],
      [Nominal EXCEPT !.INITIAL_PORT_RADIUS = 0], [Nominal EXCEPT !.GRAIN_LENGTH = 0],
      [Nominal EXCEPT !.FUEL_DENSITY = 0], [Nominal EXCEPT !.CHARACTERISTIC_VELOCITY = 0],
      [Nominal EXCEPT !.MAX_PORT_RADIUS = Lit(16)], [Nominal EXCEPT !.MAX_PORT_RADIUS = Lit(12)],
      [Nominal EXCEPT !.SIMULATION_DURATION = 0] }

Configs == ValidConfigs \cup FaultyConfigs

----------------------------------------------------------------------------
\* The ballistics functions

calculate_regression_rate(r, flux) ==
    IF r < cfg.SINGULARITY_THRESHOLD
    THEN { FMul(cfg.REGRESSION_RATE_COEFFICIENT, p) : p \in FPow45(flux) }
    ELSE { FMul(cfg.REGRESSION_RATE_COEFFICIENT, p) : p \in FPow45(flux) }

calculate_fuel_flow_rate(r, rate) ==
    LET surface_area == FMul(FMul(FMul(2 * Q, PI), r), cfg.GRAIN_LENGTH)
    IN  FMul(FMul(cfg.FUEL_DENSITY, surface_area), rate)

calculate_chamber_pressure(total) ==
    FDiv(FMul(total, cfg.CHARACTERISTIC_VELOCITY), cfg.THROAT_AREA)

calculate_thrust_no_cstar(total) == total

calculate_thrust(total) == FMul(total, cfg.CHARACTERISTIC_VELOCITY)

----------------------------------------------------------------------------
\* simulate_hybrid_rocket

LoopConditionOr(t, r) == t < cfg.SIMULATION_DURATION \/ r < cfg.MAX_PORT_RADIUS

\* while time < SIMULATION_DURATION and port_radius < MAX_PORT_RADIUS
LoopCondition(t, r) == t < cfg.SIMULATION_DURATION /\ r < cfg.MAX_PORT_RADIUS

\* np.pi * port_radius**2
FluxDenominator(r) == FMul(PI, FMul(r, r))

OxidizerFlux(r) == FDiv(cfg.OXIDIZER_MASS_FLOW_RATE, FluxDenominator(r))

EulerStepAssign(r, rate) == FMul(rate, cfg.DELTA_T)

\* port_radius += regression_rate * DELTA_T
EulerStep(r, rate) == FAdd(r, FMul(rate, cfg.DELTA_T))

LoopBodyStale(r, rate) ==
    LET ffr == calculate_fuel_flow_rate(r, rate)
    IN  [port_radius |-> EulerStep(r, rate), fuel_flow_rate |-> ffr,
         total_mass_flow_rate |-> FAdd(cfg.OXIDIZER_MASS_FLOW_RATE, ffr)]

\* Lines 68-74: the radius update, then the fuel flow at the updated radius,
\* then the total mass flow.
LoopBody(r, rate) ==
    LET r2  == EulerStep(r, rate)
        ffr == calculate_fuel_flow_rate(r2, rate)
    IN  [port_radius |-> r2, fuel_flow_rate |-> ffr,
         total_mass_flow_rate |-> FAdd(cfg.OXIDIZER_MASS_FLOW_RATE, ffr)]

AccumulateFuelAssign(tot, ffr) == FMul(ffr, cfg.DELTA_T)

\* total_fuel_consumed += fuel_flow_rate * DELTA_T
AccumulateFuel(tot, ffr) == FAdd(tot, FMul(ffr, cfg.DELTA_T))

AdvanceTimeTwice(t) == FAdd(FAdd(t, cfg.DELTA_T), cfg.DELTA_T)

\* time += DELTA_T
AdvanceTime(t) == FAdd(t, cfg.DELTA_T)

StoreOverwrite(series, v) ==
    IF series = <<>> THEN <<v>> ELSE [series EXCEPT ![Len(series)] = v]

\* series.append(v)
Store(series, v) == Append(series, v)

Init ==
    /\ cfg \in Configs
    /\ time = 0
    /\ port_radius = cfg.INITIAL_PORT_RADIUS
    /\ total_fuel_consumed = 0
    /\ time_data = <<>> /\ port_radius_data = <<>>
    /\ chamber_pressure_data = <<>> /\ thrust_data = <<>>
    /\ oxidizer_flux = Unbound /\ regression_rate = Unbound
    /\ fuel_flow_rate = Unbound /\ total_mass_flow_rate = Unbound
    /\ chamber_pressure = Unbound /\ thrust = Unbound
    /\ pc = "loop"
    /\ outcome = "running"
    /\ results = <<>>
    /\ steps = 0
    /\ fuel_flow_data = <<>>

\* One iteration of the loop, lines 60-90.
Step ==
    /\ pc = "loop"
    /\ LoopCondition(time, port_radius)
    /\ steps < MaxSteps
    /\ FluxDenominator(port_radius) # 0
    /\ cfg.THROAT_AREA # 0
    /\ \E rate \in calculate_regression_rate(port_radius, OxidizerFlux(port_radius)) :
         LET b == LoopBody(port_radius, rate)
             p == calculate_chamber_pressure(b.total_mass_flow_rate)
             f == calculate_thrust(b.total_mass_flow_rate)
         IN  /\ oxidizer_flux' = OxidizerFlux(port_radius)
             /\ regression_rate' = rate
             /\ port_radius' = b.port_radius
             /\ fuel_flow_rate' = b.fuel_flow_rate
             /\ total_mass_flow_rate' = b.total_mass_flow_rate
             /\ chamber_pressure' = p
             /\ thrust' = f
             /\ total_fuel_consumed' = AccumulateFuel(total_fuel_consumed, b.fuel_flow_rate)
             /\ time_data' = Store(time_data, time)
             /\ port_radius_data' = Store(port_radius_data, b.port_radius)
             /\ chamber_pressure_data' = Store(chamber_pressure_data, p)
             /\ thrust_data' = Store(thrust_data, f)
             /\ time' = AdvanceTime(time)
             /\ fuel_flow_data' = Append(fuel_flow_data, b.fuel_flow_rate)
    /\ steps' = steps + 1
    /\ UNCHANGED <<cfg, pc, outcome, results>>

\* Line 62 divides by zero: the call ends with ZeroDivisionError.
FluxRaises ==
    /\ pc = "loop"
    /\ LoopCondition(time, port_radius)
    /\ FluxDenominator(port_radius) = 0
    /\ pc' = "done"
    /\ outcome' = "ZeroDivisionError"
    /\ UNCHANGED <<cfg, time, port_radius, total_fuel_consumed, time_data,
                   port_radius_data, chamber_pressure_data, thrust_data, oxidizer_flux,
                   regression_rate, fuel_flow_rate, total_mass_flow_rate,
                   chamber_pressure, thrust, results, steps, fuel_flow_data>>

\* Line 77 (calculate_chamber_pressure, line 39) divides by zero, after
\* lines 62-74 have run.
PressureRaises ==
    /\ pc = "loop"
    /\ LoopCondition(time, port_radius)
    /\ FluxDenominator(port_radius) # 0
    /\ cfg.THROAT_AREA = 0
    /\ \E rate \in calculate_regression_rate(port_radius, OxidizerFlux(port_radius)) :
         LET b == LoopBody(port_radius, rate)
         IN  /\ oxidizer_flux' = OxidizerFlux(port_radius)
             /\ regression_rate' = rate
             /\ port_radius' = b.port_radius
             /\ fuel_flow_rate' = b.fuel_flow_rate
             /\ total_mass_flow_rate' = b.total_mass_flow_rate
    /\ pc' = "done"
    /\ outcome' = "ZeroDivisionError"
    /\ UNCHANGED <<cfg, time, total_fuel_consumed, time_data, port_radius_data,
                   chamber_pressure_data, thrust_data, chamber_pressure, thrust,
                   results, steps, fuel_flow_data>>

\* The loop test fails and line 93 runs.  chamber_pressure and thrust are
\* assigned only inside the loop; reading an unassigned local raises
\* UnboundLocalError.
Return ==
    /\ pc = "loop"
    /\ ~LoopCondition(time, port_radius)
    /\ pc' = "done"
    /\ IF chamber_pressure = Unbound \/ thrust = Unbound
       THEN /\ outcome' = "UnboundLocalError"
            /\ results' = <<>>
       ELSE /\ outcome' = "returned"
            /\ results' = <<time_data, port_radius_data, chamber_pressure_data,
                            thrust_data, total_fuel_consumed, port_radius,
                            chamber_pressure, thrust>>
    /\ UNCHANGED <<cfg, time, port_radius, total_fuel_consumed, time_data,
                   port_radius_data, chamber_pressure_data, thrust_data, oxidizer_flux,
                   regression_rate, fuel_flow_rate, total_mass_flow_rate,
                   chamber_pressure, thrust, steps, fuel_flow_data>>

Next == Step \/ FluxRaises \/ PressureRaises \/ Return

Spec == Init /\ [][Next]_vars

----------------------------------------------------------------------------
\* Properties

\* All constants strictly positive and MAX_PORT_RADIUS > INITIAL_PORT_RADIUS.
Valid ==
    /\ \A k \in DOMAIN cfg : cfg[k] > 0
    /\ cfg.MAX_PORT_RADIUS > cfg.INITIAL_PORT_RADIUS

InvalidConstants ==
    \/ cfg.THROAT_AREA <= 0 \/ cfg.DELTA_T <= 0 \/ cfg.INITIAL_PORT_RADIUS <= 0
    \/ cfg.GRAIN_LENGTH <= 0 \/ cfg.FUEL_DENSITY <= 0
    \/ cfg.CHARACTERISTIC_VELOCITY <= 0

Degenerate ==
    cfg.MAX_PORT_RADIUS <= cfg.INITIAL_PORT_RADIUS \/ cfg.SIMULATION_DURATION <= 0

\* ceil(a / b) of two floats, exactly.
CeilDiv(a, b) == (a + b - 1) \div b

Last(series) == series[Len(series)]

\* C1: under a valid configuration the number of executed steps never
\* exceeds ceil(SIMULATION_DURATION / DELTA_T).
C1_StepBound ==
    Valid => /\ steps <= CeilDiv(cfg.SIMULATION_DURATION, cfg.DELTA_T)
             /\ Len(time_data) <= CeilDiv(cfg.SIMULATION_DURATION, cfg.DELTA_T)

\* C2: when MAX_PORT_RADIUS <= INITIAL_PORT_RADIUS or SIMULATION_DURATION <= 0
\* the call performs no iteration and returns normally, with four empty
\* series, total_fuel_consumed = 0 and the final radius equal to the initial one.
C2_DegenerateReturns ==
    Degenerate =>
        /\ steps = 0
        /\ pc = "done" =>
             /\ outcome = "returned"
             /\ Len(results) = 8
             /\ results[1] = <<>> /\ results[2] = <<>>
             /\ results[3] = <<>> /\ results[4] = <<>>
             /\ results[5] = 0
             /\ results[6] = cfg.INITIAL_PORT_RADIUS

\* C3: with a non-positive THROAT_AREA, DELTA_T, INITIAL_PORT_RADIUS,
\* GRAIN_LENGTH, FUEL_DENSITY or CHARACTERISTIC_VELOCITY no step is executed,
\* no entry is appended and the call ends in a configuration error.
C3_InvalidRejected ==
    InvalidConstants =>
        /\ steps = 0
        /\ time_data = <<>> /\ port_radius_data = <<>>
        /\ chamber_pressure_data = <<>> /\ thrust_data = <<>>
        /\ pc = "done" => outcome = "ConfigurationError"

\* C4: the four series always have the same length, the number of completed
\* steps, and are append-only: a transition keeps every entry already there
\* and adds at most one entry, at the same index in all four.
C4_SeriesAligned ==
    /\ [](/\ Len(time_data) = steps
          /\ Len(port_radius_data) = steps
          /\ Len(chamber_pressure_data) = steps
          /\ Len(thrust_data) = steps)
    /\ [][/\ Len(time_data') \in {Len(time_data), Len(time_data) + 1}
          /\ \A i \in 1..Len(time_data) :
               /\ time_data'[i] = time_data[i]
               /\ port_radius_data'[i] = port_radius_data[i]
               /\ chamber_pressure_data'[i] = chamber_pressure_data[i]
               /\ thrust_data'[i] = thrust_data[i]]_vars

C4_Witness ==
    /\ pc = "done" /\ outcome = "returned"
    /\ steps >= 2
    /\ Len(results[1]) = steps /\ Len(results[2]) = steps
    /\ Len(results[3]) = steps /\ Len(results[4]) = steps

\* C5: under a valid configuration the recorded port radius never decreases
\* and the first recorded radius is at least INITIAL_PORT_RADIUS.
C5_RadiusNonDecreasing ==
    Valid =>
        /\ \A i \in 1..(Len(port_radius_data) - 1) :
             port_radius_data[i + 1] >= port_radius_data[i]
        /\ Len(port_radius_data) >= 1 => port_radius_data[1] >= cfg.INITIAL_PORT_RADIUS

C5_Witness ==
    /\ Valid
    /\ Len(port_radius_data) >= 3
    /\ port_radius_data[1] > cfg.INITIAL_PORT_RADIUS
    /\ port_radius_data[3] > port_radius_data[2]

\* C6 as stated: the time series starts at 0, is strictly increasing, and
\* consecutive entries differ by exactly DELTA_T.
C6_ConstantSpacing ==
    /\ Len(time_data) >= 1 => time_data[1] = 0
    /\ \A i \in 1..(Len(time_data) - 1) :
         /\ time_data[i + 1] > time_data[i]
         /\ time_data[i + 1] - time_data[i] = cfg.DELTA_T

\* C6 as amended: the time series starts at 0 and each next entry is the
\* floating-point sum of the previous entry and DELTA_T, so the series never
\* decreases and its spacing is DELTA_T up to the rounding of one addition.
C6_TimeAccumulated ==
    /\ Len(time_data) >= 1 => time_data[1] = 0
    /\ \A i \in 1..(Len(time_data) - 1) :
         /\ time_data[i + 1] >= time_data[i]
         /\ time_data[i + 1] = RoundRat(time_data[i] + cfg.DELTA_T, 1)
         /\ 2 * (time_data[i + 1] - (time_data[i] + cfg.DELTA_T)) <= Spacing(time_data[i + 1])
         /\ 2 * ((time_data[i] + cfg.DELTA_T) - time_data[i + 1]) <= Spacing(time_data[i + 1])

C6_Witness ==
    /\ Valid
    /\ Len(time_data) >= 2
    /\ \E i \in 1..(Len(time_data) - 1) :
         time_data[i + 1] - time_data[i] # cfg.DELTA_T

\* C7 as stated: at every index thrust equals chamber pressure times
\* THROAT_AREA.
C7_ThrustIsPressureTimesArea ==
    \A i \in 1..Len(thrust_data) :
        thrust_data[i] = FMul(chamber_pressure_data[i], cfg.THROAT_AREA)

\* C7 as amended: at every index chamber pressure is the floating-point
\* quotient of the recorded thrust by THROAT_AREA (both come from the same
\* product of total mass flow and characteristic velocity).
C7_PressureFromThrust ==
    \A i \in 1..Len(thrust_data) :
        /\ Len(chamber_pressure_data) >= i
        /\ chamber_pressure_data[i] = RoundRat(thrust_data[i] * Q, cfg.THROAT_AREA)

C7_Witness ==
    \E i \in 1..Len(thrust_data) :
        /\ chamber_pressure_data[i] = RoundRat(thrust_data[i] * Q, cfg.THROAT_AREA)
        /\ thrust_data[i] # FMul(chamber_pressure_data[i], cfg.THROAT_AREA)

\* C8: in every step the flux and the regression rate come from the radius
\* before the update, the radius advances by regression_rate * DELTA_T, the
\* fuel flow (hence pressure, thrust and the fuel accumulated) comes from the
\* updated radius with that same rate, and the entry appended pairs the time
\* before the advance with the radius after the update.
C8_StepOrder ==
    [][steps' # steps =>
        LET flux == RoundRat(cfg.OXIDIZER_MASS_FLOW_RATE * Q,
                             RoundRat(PI * RoundRat(port_radius * port_radius, Q), Q))
            area == RoundRat(RoundRat(RoundRat(2 * Q * PI, Q) * port_radius', Q)
                             * cfg.GRAIN_LENGTH, Q)
            ffr  == RoundRat(RoundRat(cfg.FUEL_DENSITY * area, Q) * regression_rate', Q)
            tot  == RoundRat(cfg.OXIDIZER_MASS_FLOW_RATE + ffr, 1)
        IN  /\ oxidizer_flux' = flux
            /\ \E p \in FPow45(flux) :
                 regression_rate' = RoundRat(cfg.REGRESSION_RATE_COEFFICIENT * p, Q)
            /\ port_radius' =
                 RoundRat(port_radius + RoundRat(regression_rate' * cfg.DELTA_T, Q), 1)
            /\ fuel_flow_rate' = ffr
            /\ total_mass_flow_rate' = tot
            /\ thrust' = RoundRat(tot * cfg.CHARACTERISTIC_VELOCITY, Q)
            /\ chamber_pressure' = RoundRat(thrust' * Q, cfg.THROAT_AREA)
            /\ total_fuel_consumed' =
                 RoundRat(total_fuel_consumed + RoundRat(ffr * cfg.DELTA_T, Q), 1)
            /\ Last(time_data') = time
            /\ Last(port_radius_data') = port_radius'
            /\ Last(chamber_pressure_data') = chamber_pressure'
            /\ Last(thrust_data') = thrust'
            /\ time' = RoundRat(time + cfg.DELTA_T, 1)]_vars

\* A first step whose fuel flow at the updated radius differs from the fuel
\* flow the radius before the update would give.
C8_Witness ==
    /\ steps = 1
    /\ port_radius > cfg.INITIAL_PORT_RADIUS
    /\ Last(port_radius_data) = port_radius
    /\ Last(time_data) = 0 /\ time > 0
    /\ fuel_flow_rate # calculate_fuel_flow_rate(cfg.INITIAL_PORT_RADIUS, regression_rate)

\* C9: a step runs only from a state with time < SIMULATION_DURATION and
\* port_radius < MAX_PORT_RADIUS; every recorded time is below
\* SIMULATION_DURATION and every recorded radius but the last is below
\* MAX_PORT_RADIUS.
C9_GuardedSteps ==
    /\ [](/\ \A i \in 1..Len(time_data) : time_data[i] < cfg.SIMULATION_DURATION
          /\ \A i \in 1..(Len(port_radius_data) - 1) :
               port_radius_data[i] < cfg.MAX_PORT_RADIUS)
    /\ [][steps' # steps =>
            time < cfg.SIMULATION_DURATION /\ port_radius < cfg.MAX_PORT_RADIUS]_vars
    /\ [][(pc = "loop" /\ ~(time < cfg.SIMULATION_DURATION
                             /\ port_radius < cfg.MAX_PORT_RADIUS))
            => steps' = steps /\ pc' = "done"]_vars

\* The run ended because the last step reached or overshot MAX_PORT_RADIUS
\* while time was still below SIMULATION_DURATION.
C9_Witness ==
    /\ pc = "done" /\ outcome = "returned"
    /\ steps >= 2
    /\ Last(port_radius_data) >= cfg.MAX_PORT_RADIUS
    /\ time < cfg.SIMULATION_DURATION

\* The program's running sum: total_fuel_consumed += fuel_flow_rate * DELTA_T
\* over the recorded fuel flow rates, in step order.
RECURSIVE RunningFuel(_)
RunningFuel(flows) ==
    IF flows = <<>> THEN 0
    ELSE RoundRat(RunningFuel(SubSeq(flows, 1, Len(flows) - 1))
                  + RoundRat(Last(flows) * cfg.DELTA_T, Q), 1)

\* C10: after a return with at least one step executed, the final radius,
\* pressure and thrust returned are the last entries of their series and the
\* total fuel returned is the sum, accumulated in step order in floating
\* point, of fuel_flow_rate * DELTA_T over the executed steps.
C10_ScalarsAgree ==
    (outcome = "returned" /\ steps >= 1) =>
        /\ Len(results) = 8
        /\ Len(results[2]) = steps /\ Len(fuel_flow_data) = steps
        /\ results[6] = Last(results[2])
        /\ results[7] = Last(results[3])
        /\ results[8] = Last(results[4])
        /\ results[5] = RunningFuel(fuel_flow_data)

C10_Witness ==
    /\ outcome = "returned" /\ steps >= 3
    /\ results[5] > RoundRat(Last(fuel_flow_data) * cfg.DELTA_T, Q)
    /\ results[6] > cfg.INITIAL_PORT_RADIUS

====
